---- MODULE Spec2Model ----
(***************************************************************************)
(* The linkify scanner (src/src/linkify/core/scanner.js): the character     *)
(* automaton built at module load and the longest-match scanning loop of    *)
(* run(str).                                                                *)
(*                                                                          *)
(* A character is a one-character string; a JavaScript string is a          *)
(* sequence of characters.  The vertical tab, for which TLA+ has no escape, *)
(* is written "\\v".  Cursor positions are 0-based as in the source, so the *)
(* character at cursor c is element c + 1 of the sequence.                  *)
(***************************************************************************)
EXTENDS Integers, Sequences, FiniteSets, TLC

VARIABLES automaton, calls, cursor, literals

vars == <<automaton, calls, cursor, literals>>

(***************************************************************************)
(* Bounds of the model.                                                     *)
(***************************************************************************)
MaxLen == 3       \* longest input made of single characters
MaxWords == 3     \* most words an input made of words has
MaxLenConc == 2   \* longest input of each of two interleaved calls
MaxLiterals == 3  \* most top-level domains a list given to the build has

\* The inputs of run are every string of at most MaxLen characters of
\* InputChars, every concatenation of at most MaxWords words of
\* InputWords, and the strings of Examples.
\* InputChars: a letter in lower and in upper case ("tt" is a top-level
\* domain, "t" is not), a digit, the hyphen, two whitespace characters, the
\* newline and a character no state has a jump on.
InputChars == {"t", "T", "1", "-", " ", "\t", "\n", "*"}

\* InputWords: the schemes and what makes them protocols or not, words in
\* mixed case one of which is a top-level domain, the dot and the hyphen.
InputWords ==
  { <<"h","t","t","p">>, <<"f","t","p">>, <<"f","i","l","e">>, <<"s">>,
    <<":">>, <<"E","x","A","m","p","l","e">>, <<"C","O","M">>, <<".">>,
    <<"-">> }

\* Examples: the inputs the specification names ("Email test@gmail.com now",
\* "comx", "localhost", "foo-bar", "a   b"), "localhost" followed by a
\* letter, and a letter followed by ten hyphens, more than the longest
\* literal has characters.
EmailExample ==
  <<"E","m","a","i","l"," ","t","e","s","t","@","g","m","a","i","l",".",
      "c","o","m"," ","n","o","w">>

LongHyphens == <<"t">> \o [i \in 1..10 |-> "-"]

Examples ==
  { EmailExample, LongHyphens,
    <<"c","o","m","x">>,
    <<"l","o","c","a","l","h","o","s","t">>,
    <<"l","o","c","a","l","h","o","s","t","s">>,
    <<"f","o","o","-","b","a","r">>,
    <<"a"," "," "," ","b">> }

\* The words the lists of top-level domains given to the build are made of:
\* each of "c", "co", "com" is a prefix of the next.
LiteralWords ==
  { <<"c">>, <<"c","o">>, <<"c","o","m">>, <<"t","t">>, <<"t","t","t">> }

\* The characters two interleaved calls draw their inputs from.
InputCharsConc == {"t", "p", "-"}

(***************************************************************************)
(* Token classes (./tokens, text).  A state without a token class has T     *)
(* null.                                                                    *)
(***************************************************************************)
null == "null"

T_DOMAIN == "DOMAIN"
T_LOCALHOST == "LOCALHOST"
T_NUM == "NUM"
T_PROTOCOL == "PROTOCOL"
T_TLD == "TLD"
T_WS == "WS"
T_NL == "NL"
T_SYM == "SYM"

(***************************************************************************)
(* Character classes of the scanner.                                        *)
(***************************************************************************)
NUM == <<"0", "1", "2", "3", "4", "5", "6", "7", "8", "9">>

ALPHANUM ==
  <<"0", "1", "2", "3", "4", "5", "6", "7", "8", "9",
    "a", "b", "c", "d", "e", "f", "g", "h", "i", "j", "k", "l", "m",
    "n", "o", "p", "q", "r", "s", "t", "u", "v", "w", "x", "y", "z">>

WHITESPACE == <<" ", "\f", "\r", "\t", "\\v">>

COLON == ":"

\* tlds = __TLDS__: the list the build substitutes, in alphabetical order.
\* The model takes a sub-list of it that, like the full list, has a literal
\* starting with every letter, literals sharing prefixes ("co", "com") and
\* literals sharing a prefix with a scheme ("fi", "file").
tlds ==
  << <<"a","c">>, <<"b","e">>, <<"c","o">>, <<"c","o","m">>, <<"d","e">>,
     <<"e","s">>, <<"f","i">>, <<"f","r">>, <<"g","o","v">>, <<"h","k">>,
     <<"i","n">>, <<"i","n","f","o">>, <<"j","p">>, <<"k","e">>, <<"l","i">>,
     <<"m","e">>, <<"n","e","t">>, <<"o","r","g">>, <<"p","t">>, <<"q","a">>,
     <<"r","u">>, <<"s","t">>, <<"t","e","l">>, <<"t","p">>, <<"t","t">>,
     <<"u","k">>, <<"v","a">>, <<"w","s">>, <<"x","x","x">>, <<"y","e">>,
     <<"z","a">> >>

(***************************************************************************)
(* ./state: CharacterState.  The automaton is a sequence of states, a state *)
(* being its jump list j (pairs <<symbol, target>>, tried in order), its    *)
(* token class T and its default transition d (0: none).  A state is named  *)
(* by its index in the sequence.                                            *)
(***************************************************************************)
NoState == 0

Min(S) == CHOOSE x \in S : \A y \in S : x <= y

\* F(v), with v evaluated once and first: TLC evaluates the argument of an
\* operator where it is used, as often as it is used, and a long chain of
\* calls nests too deep.
Let(v, F(_)) == CHOOSE y \in {F(x) : x \in {v}} : TRUE

\* new State(tokenClass), appended to the states made so far
makeState(states, tokenClass) ==
  Append(states, [j |-> <<>>, T |-> tokenClass, d |-> NoState])

\* state.on(symbols, target): one jump per symbol, after the jumps already there
on(states, s, symbols, target) ==
  [states EXCEPT ![s].j =
     @ \o [i \in 1..Len(symbols) |-> <<symbols[i], target>>]]

\* state.next(item): the first jump on item, else the default transition
next(states, s, item) ==
  LET j == states[s].j
      hits == {i \in 1..Len(j) : j[i][1] = item}
  IN  IF hits = {} THEN states[s].d ELSE j[Min(hits)][2]

\* state.accepts()
accepts(states, s) == states[s].T # null

\* state.emit()
emit(states, s) == states[s].T

(***************************************************************************)
(* ./state: stateify(str, start, endToken, defaultToken).  Walks str from   *)
(* start along the jumps that exist, then makes one new state per remaining *)
(* character: defaultToken on each but the last, endToken on the last.      *)
(* The result is the automaton and the list of the states made.            *)
(***************************************************************************)
RECURSIVE stateifyWalk(_, _, _, _)
stateifyWalk(states, str, i, state) ==
  IF i < Len(str) /\ next(states, state, str[i + 1]) # NoState
  THEN stateifyWalk(states, str, i + 1, next(states, state, str[i + 1]))
  ELSE <<i, state>>

RECURSIVE stateifyMake(_, _, _, _, _, _, _)
stateifyMake(states, str, i, state, endToken, defaultToken, newStates) ==
  LET last == (i >= Len(str) - 1)
      nextState == Len(states) + 1
      link(made) == on(made, state, <<str[i + 1]>>, nextState)
      more(linked) ==
        IF last
        THEN [states |-> linked, newStates |-> Append(newStates, nextState)]
        ELSE stateifyMake(linked, str, i + 1, Len(linked), endToken,
                          defaultToken, Append(newStates, Len(linked)))
  IN  Let(link(makeState(states, IF last THEN endToken ELSE defaultToken)),
          more)

\* the whole word is already a path and its final state is left with the tag
\* it has
stateifyTailUntagged(states, state, endToken) ==
  [states |-> states, newStates |-> <<>>]

\* the whole word is already a path: its final state takes the tail tag and
\* no state is made
stateifyTail(states, state, endToken) ==
  [states |-> [states EXCEPT ![state].T = endToken], newStates |-> <<>>]

stateify(states, str, start, endToken, defaultToken) ==
  LET make(w) ==
        IF w[1] >= Len(str)
        THEN stateifyTail(states, w[2], endToken)
        ELSE stateifyMake(states, str, w[1], w[2], endToken, defaultToken,
                          <<>>)
  IN  Let(stateifyWalk(states, str, 0, start), make)

(***************************************************************************)
(* The automaton of scanner.js, built in the order of the source.  Each     *)
(* stage takes what the statements before it have built and gives what the  *)
(* statements it models leave: the sequence of states, and from the         *)
(* top-level domains on also the list domainStates.                         *)
(***************************************************************************)
S_START == 1
S_NUM == 2
S_DOMAIN == 3
S_DOMAIN_HYPHEN == 4
S_WS == 5

\* lines 32-37 with S_DOMAIN_HYPHEN made as an accepting domain state
FrequentStatesHyphenAccepts ==
  makeState(makeState(makeState(makeState(makeState(<<>>,
    null), T_NUM), T_DOMAIN), T_DOMAIN), T_WS)

\* lines 32-37: the frequently used states
FrequentStates ==
  makeState(makeState(makeState(makeState(makeState(<<>>,
    null), T_NUM), T_DOMAIN), null), T_WS)

\* state.on(symbols, makeState(tokenClass))
onNew(states, s, symbols, tokenClass) ==
  on(makeState(states, tokenClass), s, symbols, Len(states) + 1)

\* lines 40-54: the special URL symbols
SymbolTable ==
  << <<<<"@">>, "AT">>, <<<<".">>, "DOT">>, <<<<"+">>, "PLUS">>,
     <<<<"#">>, "POUND">>, <<<<"?">>, "QUERY">>, <<<<"/">>, "SLASH">>,
     <<<<COLON>>, "COLON">>, <<<<"{">>, "OPENBRACE">>,
     <<<<"[">>, "OPENBRACKET">>, <<<<"(">>, "OPENPAREN">>,
     <<<<"}">>, "CLOSEBRACE">>, <<<<"]">>, "CLOSEBRACKET">>,
     <<<<")">>, "CLOSEPAREN">>,
     <<<<",", ";", "!", "\"">>, "PUNCTUATION">> >>

RECURSIVE onSymbols(_, _)
onSymbols(states, i) ==
  IF i > Len(SymbolTable) THEN states
  ELSE Let(onNew(states, S_START, SymbolTable[i][1], SymbolTable[i][2]),
           LAMBDA r : onSymbols(r, i + 1))

\* lines 40-54 with the state of the dot looping on the dot
SymbolStatesDotLoops(states) ==
  Let(onSymbols(states, 1),
      LAMBDA made : on(made, next(made, S_START, "."), <<".">>,
                       next(made, S_START, ".")))

\* lines 40-54
SymbolStates(states) == onSymbols(states, 1)

\* lines 58-63 without line 63: S_WS does not loop on whitespace
WhitespaceStatesNoLoop(states) ==
  on(onNew(states, S_START, <<"\n">>, T_NL), S_START, WHITESPACE, S_WS)

\* lines 58-63 with the newline among the characters S_WS loops on
WhitespaceStatesNewlineInRun(states) ==
  on(on(onNew(states, S_START, <<"\n">>, T_NL),
        S_START, WHITESPACE, S_WS),
     S_WS, WHITESPACE \o <<"\n">>, S_WS)

\* lines 58-63: whitespace jumps
WhitespaceStates(states) ==
  on(on(onNew(states, S_START, <<"\n">>, T_NL),
        S_START, WHITESPACE, S_WS),
     S_WS, WHITESPACE, S_WS)

\* lines 67-70: one stateify per top-level domain; domainStates collects the
\* states made
RECURSIVE stateifyTlds(_, _, _, _)
stateifyTlds(list, states, domainStates, i) ==
  IF i > Len(list) THEN [states |-> states, domainStates |-> domainStates]
  ELSE Let(stateify(states, list[i], S_START, T_TLD, T_DOMAIN),
           LAMBDA r : stateifyTlds(list, r.states,
                                   domainStates \o r.newStates, i + 1))

\* lines 65-70 with T_TLD given to stateify as both of its token classes
TldStatesAllTagged(list, states) ==
  LET RECURSIVE all(_, _, _)
      all(sts, domainStates, i) ==
        IF i > Len(list) THEN [states |-> sts, domainStates |-> domainStates]
        ELSE Let(stateify(sts, list[i], S_START, T_TLD, T_TLD),
                 LAMBDA r : all(r.states, domainStates \o r.newStates, i + 1))
  IN  all(states, <<>>, 1)

\* lines 65-70 with list as the value of tlds
TldStates(list, states) == stateifyTlds(list, states, <<>>, 1)

\* lines 73-81: the states of the schemes, pushed to domainStates
partialProtocolFileStates(b) ==
  Let(stateify(b.states, <<"f","i","l","e">>, S_START, T_DOMAIN, T_DOMAIN),
      LAMBDA r : [states |-> r.states, domainStates |-> b.domainStates,
                  file |-> r.newStates])

partialProtocolFtpStates(b) ==
  Let(stateify(b.states, <<"f","t","p">>, S_START, T_DOMAIN, T_DOMAIN),
      LAMBDA r : [states |-> r.states, domainStates |-> b.domainStates,
                  file |-> b.file, ftp |-> r.newStates])

partialProtocolHttpStates(b) ==
  Let(stateify(b.states, <<"h","t","t","p">>, S_START, T_DOMAIN, T_DOMAIN),
      LAMBDA r : [states |-> r.states,
                  domainStates |-> b.domainStates \o b.file \o b.ftp
                                     \o r.newStates,
                  file |-> b.file, ftp |-> b.ftp, http |-> r.newStates])

\* array.pop(): the last element
pop(array) == array[Len(array)]

\* lines 83-103 with S_PROTOCOL_SECURE made as a protocol state (line 87
\* given the tag of line 88)
ProtocolStatesSecureAccepts(b) ==
  LET S_PROTOCOL_FILE == pop(b.file)
      S_PROTOCOL_FTP == pop(b.ftp)
      S_PROTOCOL_HTTP == pop(b.http)
      S_PROTOCOL_SECURE == Len(b.states) + 1
      S_FULL_PROTOCOL == Len(b.states) + 2
      made == makeState(makeState(b.states, T_PROTOCOL), T_PROTOCOL)
      ftp == on(on(made, S_PROTOCOL_FTP, <<"s">>, S_PROTOCOL_SECURE),
                S_PROTOCOL_FTP, <<COLON>>, S_FULL_PROTOCOL)
      http == on(on(ftp, S_PROTOCOL_HTTP, <<"s">>, S_PROTOCOL_SECURE),
                 S_PROTOCOL_HTTP, <<COLON>>, S_FULL_PROTOCOL)
      file == on(http, S_PROTOCOL_FILE, <<COLON>>, S_FULL_PROTOCOL)
      secure == on(file, S_PROTOCOL_SECURE, <<COLON>>, S_FULL_PROTOCOL)
  IN  [states |-> secure,
       domainStates |-> Append(b.domainStates, S_PROTOCOL_SECURE)]

\* lines 83-103: the protocol states and their jumps
ProtocolStates(b) ==
  LET S_PROTOCOL_FILE == pop(b.file)
      S_PROTOCOL_FTP == pop(b.ftp)
      S_PROTOCOL_HTTP == pop(b.http)
      S_PROTOCOL_SECURE == Len(b.states) + 1
      S_FULL_PROTOCOL == Len(b.states) + 2
      made == makeState(makeState(b.states, T_DOMAIN), T_PROTOCOL)
      ftp == on(on(made, S_PROTOCOL_FTP, <<"s">>, S_PROTOCOL_SECURE),
                S_PROTOCOL_FTP, <<COLON>>, S_FULL_PROTOCOL)
      http == on(on(ftp, S_PROTOCOL_HTTP, <<"s">>, S_PROTOCOL_SECURE),
                 S_PROTOCOL_HTTP, <<COLON>>, S_FULL_PROTOCOL)
      file == on(http, S_PROTOCOL_FILE, <<COLON>>, S_FULL_PROTOCOL)
      secure == on(file, S_PROTOCOL_SECURE, <<COLON>>, S_FULL_PROTOCOL)
  IN  [states |-> secure,
       domainStates |-> Append(b.domainStates, S_PROTOCOL_SECURE)]

\* lines 106-107
partialLocalhostStates(b) ==
  Let(stateify(b.states, <<"l","o","c","a","l","h","o","s","t">>, S_START,
               T_LOCALHOST, T_DOMAIN),
      LAMBDA r : [states |-> r.states,
                  domainStates |-> b.domainStates \o r.newStates])

\* lines 112-120 with the jumps of S_NUM on ALPHANUM put before its jumps on
\* NUM
NumberStatesAlphanumFirst(b) ==
  LET start == on(b.states, S_START, NUM, S_NUM)
      num == on(on(on(start, S_NUM, <<"-">>, S_DOMAIN_HYPHEN),
                   S_NUM, ALPHANUM, S_DOMAIN),
                S_NUM, NUM, S_NUM)
  IN  [states |-> on(on(num, S_DOMAIN, <<"-">>, S_DOMAIN_HYPHEN),
                     S_DOMAIN, ALPHANUM, S_DOMAIN),
       domainStates |-> b.domainStates]

\* lines 112-120: number and character transitions
NumberStates(b) ==
  LET start == on(b.states, S_START, NUM, S_NUM)
      num == on(on(on(start, S_NUM, <<"-">>, S_DOMAIN_HYPHEN),
                   S_NUM, NUM, S_NUM),
                S_NUM, ALPHANUM, S_DOMAIN)
  IN  [states |-> on(on(num, S_DOMAIN, <<"-">>, S_DOMAIN_HYPHEN),
                     S_DOMAIN, ALPHANUM, S_DOMAIN),
       domainStates |-> b.domainStates]

\* lines 123-127: every generated state jumps to DOMAIN.  The loop adds to
\* each state its own jumps only, so it is taken state by state: a state
\* gets the two on() calls once for each time domainStates lists it.
domainJumps ==
  <<<<"-", S_DOMAIN_HYPHEN>>>>
    \o [i \in 1..Len(ALPHANUM) |-> <<ALPHANUM[i], S_DOMAIN>>]

\* lines 123-127 left out: the generated states get no jumps
onDomainStatesNone(b) == b.states

onDomainStates(b) ==
  [s \in 1..Len(b.states) |->
     LET n == Cardinality({i \in 1..Len(b.domainStates) :
                             b.domainStates[i] = s})
     IN  [b.states[s] EXCEPT !.j =
            @ \o [k \in 1..(n * Len(domainJumps)) |->
                    domainJumps[((k - 1) % Len(domainJumps)) + 1]]]]

\* lines 129-132
HyphenStates(states) ==
  on(on(on(states, S_DOMAIN_HYPHEN, <<"-">>, S_DOMAIN_HYPHEN),
        S_DOMAIN_HYPHEN, NUM, S_DOMAIN),
     S_DOMAIN_HYPHEN, ALPHANUM, S_DOMAIN)

\* line 135 left out: the start state has no default transition
DefaultTransitionUnset(states) == makeState(states, T_SYM)

\* line 135 with the default transition set on every state
DefaultTransitionEverywhere(states) ==
  [s \in 1..(Len(states) + 1) |->
     [makeState(states, T_SYM)[s] EXCEPT !.d = Len(states) + 1]]

\* line 135 with the state made given the jumps of the states of
\* domainStates (lines 124-126)
DefaultTransitionWithDomainJumps(states) ==
  [makeState(states, T_SYM) EXCEPT ![S_START].d = Len(states) + 1,
                                   ![Len(states) + 1].j = domainJumps]

\* line 135: S_START.d = makeState(TOKENS.SYM)
DefaultTransition(states) ==
  [makeState(states, T_SYM) EXCEPT ![S_START].d = Len(states) + 1]

\* the module's top-level statements, lines 32-135, with list as the value
\* the build gives tlds
Automaton(list) ==
  Let(Let(Let(Let(Let(Let(Let(Let(Let(Let(Let(Let(
    FrequentStates,
    SymbolStates),
    WhitespaceStates),
    LAMBDA states : TldStates(list, states)),
    partialProtocolFileStates),
    partialProtocolFtpStates),
    partialProtocolHttpStates),
    ProtocolStates),
    partialLocalhostStates),
    NumberStates),
    onDomainStates),
    HyphenStates),
    DefaultTransition)

\* the automaton of the build
BuiltAutomaton == Automaton(tlds)

(***************************************************************************)
(* run(str).  A call of run is a frame of its local variables and the       *)
(* position it is at:                                                       *)
(*   "entry"    before line 151                                             *)
(*   "while"    at the test of the outer loop, line 158                     *)
(*   "walk"     at the test of the inner loop, line 168                     *)
(*   "rollback" at line 184                                                 *)
(*   "done"     returned                                                    *)
(* iterStart (the cursor when the outer loop's body was entered), steps     *)
(* (the number of characters the inner loop has consumed) and consumed (for *)
(* each position of the input, the number of times the inner loop has       *)
(* consumed it) are history variables.                                      *)
(***************************************************************************)
UpperCase ==
  <<"A", "B", "C", "D", "E", "F", "G", "H", "I", "J", "K", "L", "M",
    "N", "O", "P", "Q", "R", "S", "T", "U", "V", "W", "X", "Y", "Z">>

LowerCase ==
  <<"a", "b", "c", "d", "e", "f", "g", "h", "i", "j", "k", "l", "m",
    "n", "o", "p", "q", "r", "s", "t", "u", "v", "w", "x", "y", "z">>

\* c.toLowerCase() for the characters /[A-Z]/ matches, line 151
toLowerCase(c) ==
  IF \E i \in 1..26 : UpperCase[i] = c
  THEN LowerCase[CHOOSE i \in 1..26 : UpperCase[i] = c]
  ELSE c

\* line 151 left out: the walk reads str as it is
lowerOfNothing(str) == str

\* str.replace(/[A-Z]/g, (c) => c.toLowerCase()), line 151
lowerOf(str) == [i \in 1..Len(str) |-> toLowerCase(str[i])]

\* String.prototype.substr(start, length), for start >= 0
substr(str, start, length) ==
  LET from == IF start > Len(str) THEN Len(str) ELSE start
      to == IF from + length > Len(str) THEN Len(str) ELSE from + length
  IN  [i \in 1..(IF to > from THEN to - from ELSE 0) |-> str[from + i]]

\* the frame of a call of run on str, not yet started
newCall(str) ==
  [pc |-> "entry", str |-> str, lowerStr |-> <<>>, len |-> 0, tokens |-> <<>>,
   state |-> S_START, tokenLength |-> 0, latestAccepting |-> NoState,
   sinceAccepts |-> -1, iterStart |-> 0, steps |-> 0,
   consumed |-> [i \in 1..Len(str) |-> 0]]

\* lines 151-155
runEntry(f) ==
  [f EXCEPT !.pc = "while", !.lowerStr = lowerOf(f.str), !.len = Len(f.str),
            !.tokens = <<>>, !.cursor = 0]

\* lines 158-166: the outer loop's test holds and its body declares its locals
loopEnter(f) ==
  [f EXCEPT !.pc = "walk", !.state = S_START, !.tokenLength = 0,
            !.latestAccepting = NoState, !.sinceAccepts = -1,
            !.iterStart = f.cursor]

\* line 168: the test of the inner loop
walkTest(states, f) ==
  /\ f.cursor < f.len
  /\ next(states, f.state, f.lowerStr[f.cursor + 1]) # NoState

\* walkStep without lines 176-178: the characters consumed since the last
\* accepting state are not counted
walkStepNoCount(states, f) ==
  LET nextState == next(states, f.state, f.lowerStr[f.cursor + 1])
  IN  [f EXCEPT !.state = nextState,
                !.sinceAccepts = IF accepts(states, nextState) THEN 0 ELSE @,
                !.latestAccepting = IF accepts(states, nextState)
                                    THEN nextState ELSE @,
                !.tokenLength = @ + 1,
                !.cursor = @ + 1,
                !.steps = @ + 1,
                !.consumed[f.cursor + 1] = @ + 1]

\* lines 169-181: the body of the inner loop
walkStep(states, f) ==
  LET nextState == next(states, f.state, f.lowerStr[f.cursor + 1])
  IN  [f EXCEPT !.state = nextState,
                !.sinceAccepts = IF accepts(states, nextState) THEN 0
                                 ELSE IF @ >= 0 THEN @ + 1 ELSE @,
                !.latestAccepting = IF accepts(states, nextState)
                                    THEN nextState ELSE @,
                !.tokenLength = @ + 1,
                !.cursor = @ + 1,
                !.steps = @ + 1,
                !.consumed[f.cursor + 1] = @ + 1]

\* line 168: the inner loop ends
walkEnd(f) == [f EXCEPT !.pc = "rollback"]

\* rollback without line 187: the cursor is not moved back
rollbackKeepsCursor(states, f) ==
  IF f.sinceAccepts < 0
  THEN [f EXCEPT !.pc = "while"]
  ELSE LET tokenLength == f.tokenLength - f.sinceAccepts
           TOKEN == emit(states, f.latestAccepting)
       IN  [f EXCEPT !.pc = "while",
                     !.tokenLength = tokenLength,
                     !.tokens = Append(@, [T |-> TOKEN,
                                           v |-> substr(f.str,
                                                        f.cursor - tokenLength,
                                                        tokenLength)])]

\* lines 184-194: nothing accepted, or roll back and push the token
rollback(states, f) ==
  IF f.sinceAccepts < 0
  THEN [f EXCEPT !.pc = "while"]
  ELSE LET cur == f.cursor - f.sinceAccepts
           tokenLength == f.tokenLength - f.sinceAccepts
           TOKEN == emit(states, f.latestAccepting)
       IN  [f EXCEPT !.pc = "while", !.cursor = cur,
                     !.tokenLength = tokenLength,
                     !.tokens = Append(@, [T |-> TOKEN,
                                           v |-> substr(f.str, cur - tokenLength,
                                                        tokenLength)])]

\* line 197
return(f) == [f EXCEPT !.pc = "done"]

\* one step of run from frame f
step(states, f) ==
  CASE f.pc = "entry" -> runEntry(f)
    [] f.pc = "while" -> IF f.cursor < f.len THEN loopEnter(f) ELSE return(f)
    [] f.pc = "walk" -> IF walkTest(states, f) THEN walkStep(states, f)
                        ELSE walkEnd(f)
    [] f.pc = "rollback" -> rollback(states, f)

\* run(str) taken alone, from its first statement to its return: the tokens
RECURSIVE runFrom(_, _)
runFrom(states, f) ==
  IF f.pc = "done" THEN f.tokens ELSE runFrom(states, step(states, f))

run(states, str) == runFrom(states, newCall(str) @@ [cursor |-> 0])

(***************************************************************************)
(* The state: the automaton, the frames of the calls of run in progress and *)
(* their cursors.  Every call has a cursor of its own (var cursor, declared *)
(* in run).                                                                 *)
(***************************************************************************)
\* cursor as one variable of the module, shared by every call
cursorOfModule(p) == 1

\* line 155: var cursor, a local variable of the call
cursorOf(p) == p

Calls == DOMAIN calls

Frame(p) == calls[p] @@ [cursor |-> cursor[cursorOf(p)]]

Store(p, f) ==
  \E g \in {f} :
    /\ calls' = [calls EXCEPT ![p] = [k \in DOMAIN calls[p] |-> g[k]]]
    /\ cursor' = [cursor EXCEPT ![cursorOf(p)] = g.cursor]
    /\ UNCHANGED <<automaton, literals>>

Strings(chars, n) == UNION {[1..k -> chars] : k \in 0..n}

RECURSIVE Concat(_)
Concat(ss) == IF ss = <<>> THEN <<>> ELSE Head(ss) \o Concat(Tail(ss))

Phrases(words, n) == {Concat(ws) : ws \in Strings(words, n)}

Inputs ==
  Strings(InputChars, MaxLen) \cup Phrases(InputWords, MaxWords)
    \cup Examples

Init ==
  /\ literals = tlds
  /\ automaton = BuiltAutomaton
  /\ \E str \in Inputs : calls = <<newCall(str)>>
  /\ cursor = <<0>>

RunEntry(p) ==
  /\ calls[p].pc = "entry"
  /\ Store(p, runEntry(Frame(p)))

LoopEnter(p) ==
  /\ calls[p].pc = "while"
  /\ Frame(p).cursor < calls[p].len
  /\ Store(p, loopEnter(Frame(p)))

Return(p) ==
  /\ calls[p].pc = "while"
  /\ ~(Frame(p).cursor < calls[p].len)
  /\ Store(p, return(Frame(p)))

Walk(p) ==
  /\ calls[p].pc = "walk"
  /\ walkTest(automaton, Frame(p))
  /\ Store(p, walkStep(automaton, Frame(p)))

WalkEnd(p) ==
  /\ calls[p].pc = "walk"
  /\ ~walkTest(automaton, Frame(p))
  /\ Store(p, walkEnd(Frame(p)))

Rollback(p) ==
  /\ calls[p].pc = "rollback"
  /\ Store(p, rollback(automaton, Frame(p)))

Next ==
  \/ \E p \in Calls : RunEntry(p)
  \/ \E p \in Calls : LoopEnter(p)
  \/ \E p \in Calls : Return(p)
  \/ \E p \in Calls : Walk(p)
  \/ \E p \in Calls : WalkEnd(p)
  \/ \E p \in Calls : Rollback(p)

Spec == Init /\ [][Next]_vars

\* Two calls of run on the one automaton, their steps interleaved.
InputsConc == Strings(InputCharsConc, MaxLenConc)

InitConc ==
  /\ literals = tlds
  /\ automaton = BuiltAutomaton
  /\ \E s1, s2 \in InputsConc : calls = <<newCall(s1), newCall(s2)>>
  /\ cursor = <<0, 0>>

SpecConc == InitConc /\ [][Next]_vars

\* The build given every list of at most MaxLiterals different words of
\* LiteralWords, in every order, the empty list among them; run is then
\* called on a word of LiteralWords or on one of two other inputs.
LiteralLists ==
  {list \in Strings(LiteralWords, MaxLiterals) :
     \A i, k \in 1..Len(list) : list[i] = list[k] => i = k}

InputsLists == LiteralWords \cup { <<"c","c">>, <<"c","o","m","t","-">> }

InitLists ==
  /\ \E list \in LiteralLists :
       /\ literals = list
       /\ automaton = Automaton(list)
  /\ \E str \in InputsLists : calls = <<newCall(str)>>
  /\ cursor = <<0>>

SpecLists == InitLists /\ [][Next]_vars

(***************************************************************************)
(* Properties.                                                              *)
(***************************************************************************)
\* the texts of the tokens, concatenated in order
Texts(tokens) == Concat([k \in 1..Len(tokens) |-> tokens[k].v])

\* the 0-based position in the input at which token k starts
RECURSIVE TokenStart(_, _)
TokenStart(tokens, k) ==
  IF k = 1 THEN 0 ELSE TokenStart(tokens, k - 1) + Len(tokens[k - 1].v)

Max(S) == CHOOSE x \in S : \A y \in S : x >= y

\* the state the walk from the start state is in after n characters of
\* lowerStr from position from, NoState when it cannot go that far
RECURSIVE walkState(_, _, _, _)
walkState(states, lowerStr, from, n) ==
  IF n = 0 THEN S_START
  ELSE LET before == walkState(states, lowerStr, from, n - 1)
       IN  IF before = NoState THEN NoState
           ELSE next(states, before, lowerStr[from + n])

\* the lengths n >= 1 of the prefixes of lowerStr from position from whose
\* walk ends on an accepting state
AcceptedLengths(states, lowerStr, from) ==
  {n \in 1..(Len(lowerStr) - from) :
     /\ walkState(states, lowerStr, from, n) # NoState
     /\ accepts(states, walkState(states, lowerStr, from, n))}

\* C1: when run(str) has returned, the texts of the tokens it gives,
\* concatenated in order, are exactly str.
C1_TokensTileInput ==
  \A p \in Calls :
    calls[p].pc = "done" => Texts(calls[p].tokens) = calls[p].str

\* a call has returned several tokens after a walk that was rolled back
C1_Witness ==
  \E p \in Calls :
    /\ calls[p].pc = "done"
    /\ Len(calls[p].tokens) >= 3
    /\ calls[p].steps > calls[p].len

\* a bound on the steps a call can still take, given that an iteration of
\* the outer loop started at cursor c ends beyond c: the steps left of the
\* iteration under way, then at most len - c iterations of at most len + 3
\* steps, then the return
StepsLeft(p) ==
  LET f == Frame(p)
      len == Len(f.str)
      atWhile(c) == (len - c) * (len + 3) + 1
  IN  CASE f.pc = "entry" -> 1 + atWhile(0)
        [] f.pc = "while" -> atWhile(f.cursor)
        [] f.pc = "walk" -> (len - f.cursor) + 2 + atWhile(f.iterStart + 1)
        [] f.pc = "rollback" -> 1 + atWhile(f.iterStart + 1)
        [] f.pc = "done" -> 0

\* C2: every iteration of the outer loop leaves the cursor beyond where the
\* iteration found it, so the scan terminates: each step of a call lowers
\* StepsLeft, which is never negative, a call that has not returned can take
\* a step, and a call that has returned has its cursor at the length of its
\* input.
C2_ProgressAndTermination ==
  /\ [][\A p \in Calls :
          /\ (calls[p].pc = "rollback" /\ calls'[p].pc = "while")
               => cursor'[cursorOf(p)] > calls[p].iterStart
          /\ calls'[p] # calls[p] => StepsLeft(p)' < StepsLeft(p)]_vars
  /\ [](\A p \in Calls :
          /\ StepsLeft(p) >= 0
          /\ calls[p].pc # "done" => ENABLED Next
          /\ calls[p].pc = "done" => cursor[cursorOf(p)] = calls[p].len)

\* an iteration has ended with the cursor moved back, input still to scan
C2_Witness ==
  \E p \in Calls :
    /\ calls[p].pc = "while"
    /\ calls[p].sinceAccepts > 0
    /\ cursor[cursorOf(p)] < calls[p].len

\* the characters some state of the built automaton has a jump on
Alphabet ==
  UNION {{BuiltAutomaton[s].j[i][1] : i \in 1..Len(BuiltAutomaton[s].j)} :
           s \in 1..Len(BuiltAutomaton)}

\* C3: when run has returned, every character of the input that no state has
\* a jump on is a token of its own, one character long, of class SYM; and no
\* walk ends without an accepting state to emit from.
C3_UnmappedCharactersAreSymbols ==
  \A p \in Calls :
    /\ calls[p].pc = "rollback" => calls[p].latestAccepting # NoState
    /\ calls[p].pc = "done" =>
         \A i \in 1..calls[p].len :
           calls[p].lowerStr[i] \notin Alphabet =>
             \E k \in 1..Len(calls[p].tokens) :
               /\ TokenStart(calls[p].tokens, k) = i - 1
               /\ calls[p].tokens[k] = [T |-> T_SYM, v |-> <<calls[p].str[i]>>]

\* a call has returned on an input with an unmapped character before a
\* letter and one after it
C3_Witness ==
  \E p \in Calls :
    /\ calls[p].pc = "done"
    /\ calls[p].str = <<"*", "t", "*">>

\* C4: every token is the longest prefix of the input not yet tokenized
\* whose walk from the start state ends on an accepting state, its class is
\* the token class of that state, and the next token starts right after it.
C4_LongestMatch ==
  \A p \in Calls :
    calls[p].pc \in {"while", "done"} =>
      \A k \in 1..Len(calls[p].tokens) :
        LET from == TokenStart(calls[p].tokens, k)
            lengths == AcceptedLengths(automaton, calls[p].lowerStr, from)
            tok == calls[p].tokens[k]
        IN  /\ lengths # {}
            /\ Len(tok.v) = Max(lengths)
            /\ tok.T = emit(automaton,
                            walkState(automaton, calls[p].lowerStr, from,
                                      Len(tok.v)))
            /\ tok.v = substr(calls[p].str, from, Len(tok.v))

\* a token has been pushed after the walk went two characters past the last
\* accepting state
C4_Witness ==
  \E p \in Calls :
    /\ calls[p].pc = "while"
    /\ calls[p].sinceAccepts = 2
    /\ Len(calls[p].tokens) >= 1
    /\ cursor[cursorOf(p)] < calls[p].len

\* the ASCII-lowercased copy of a text: each of "A" to "Z" replaced by its
\* lowercase letter, every other character kept
AsciiLower(text) ==
  [i \in 1..Len(text) |->
     IF \E n \in 1..26 : UpperCase[n] = text[i]
     THEN LowerCase[CHOOSE n \in 1..26 : UpperCase[n] = text[i]]
     ELSE text[i]]

ExAmpleCOM == <<"E","x","A","m","p","l","e",".","C","O","M">>

\* C5: run on an input and run on its ASCII-lowercased copy give as many
\* tokens, with the same classes and the same lengths, and each token's text
\* is the substring of the input as given at the token's position;
\* "ExAmple.COM" gives the texts "ExAmple", ".", "COM".
C5_CaseInsensitiveCasePreserving ==
  \A p \in Calls :
    calls[p].pc = "done" =>
      \E lowered \in {run(automaton, AsciiLower(calls[p].str))} :
        LET tokens == calls[p].tokens
        IN  /\ Len(tokens) = Len(lowered)
            /\ \A k \in 1..Len(tokens) :
                 /\ tokens[k].T = lowered[k].T
                 /\ Len(tokens[k].v) = Len(lowered[k].v)
                 /\ tokens[k].v = substr(calls[p].str, TokenStart(tokens, k),
                                         Len(tokens[k].v))
            /\ calls[p].str = ExAmpleCOM =>
                 [k \in 1..Len(tokens) |-> tokens[k].v]
                   = << <<"E","x","A","m","p","l","e">>, <<".">>,
                        <<"C","O","M">> >>

\* run has returned on "ExAmple.COM"
C5_Witness ==
  \E p \in Calls :
    /\ calls[p].pc = "done"
    /\ calls[p].str = ExAmpleCOM
    /\ Len(calls[p].tokens) = 3

SchemeWords ==
  { <<"h","t","t","p">>, <<"h","t","t","p","s">>, <<"f","t","p">>,
    <<"f","t","p","s">>, <<"f","i","l","e">> }

ProtocolTexts == {w \o <<":">> : w \in SchemeWords}

\* C6: a token has the protocol class exactly when its lowercased text is
\* one of "http:", "https:", "ftp:", "ftps:", "file:"; a token whose
\* lowercased text is a scheme word without the colon has the domain class.
C6_ProtocolGating ==
  \A p \in Calls :
    \A k \in 1..Len(calls[p].tokens) :
      LET tok == calls[p].tokens[k]
      IN  /\ tok.T = T_PROTOCOL <=> AsciiLower(tok.v) \in ProtocolTexts
          /\ AsciiLower(tok.v) \in SchemeWords => tok.T = T_DOMAIN

\* run has returned a protocol token and a token that is a bare scheme word
C6_Witness ==
  \E p \in Calls :
    /\ calls[p].pc = "done"
    /\ \E k \in 1..Len(calls[p].tokens) : calls[p].tokens[k].T = T_PROTOCOL
    /\ \E k \in 1..Len(calls[p].tokens) :
         AsciiLower(calls[p].tokens[k].v) \in SchemeWords

WhitespaceChars == {WHITESPACE[i] : i \in 1..Len(WHITESPACE)}

\* C7: when run has returned, every maximal run of non-newline whitespace
\* characters of the input is exactly one whitespace token, a whitespace
\* token holds whitespace only, and no two adjacent tokens are both
\* whitespace tokens.
C7_WhitespaceCollapsing ==
  \A p \in Calls :
    calls[p].pc = "done" =>
      LET str == calls[p].str
          tokens == calls[p].tokens
          n == Len(str)
          ws(i) == str[i] \in WhitespaceChars
      IN  /\ \A a \in 1..n : \A b \in a..n :
                (/\ \A i \in a..b : ws(i)
                 /\ a = 1 \/ ~ws(a - 1)
                 /\ b = n \/ ~ws(b + 1))
                => \E k \in 1..Len(tokens) :
                     /\ TokenStart(tokens, k) = a - 1
                     /\ tokens[k] = [T |-> T_WS,
                                     v |-> substr(str, a - 1, b - a + 1)]
          /\ \A k \in 1..Len(tokens) :
                tokens[k].T = T_WS =>
                  \A i \in 1..Len(tokens[k].v) :
                    tokens[k].v[i] \in WhitespaceChars
          /\ \A k \in 1..(Len(tokens) - 1) :
                ~(tokens[k].T = T_WS /\ tokens[k + 1].T = T_WS)

\* run has returned one whitespace token for a run of two whitespace
\* characters after a word
C7_Witness ==
  \E p \in Calls :
    /\ calls[p].pc = "done"
    /\ calls[p].str = <<"t", " ", "\t">>
    /\ Len(calls[p].tokens) = 2

\* C8: when run has returned, every newline of the input is a newline token
\* of its own, a newline token holds one newline and nothing else, and no
\* other token holds a newline.
C8_NewlineDistinct ==
  \A p \in Calls :
    calls[p].pc = "done" =>
      LET str == calls[p].str
          tokens == calls[p].tokens
      IN  /\ \A i \in 1..Len(str) :
                str[i] = "\n" =>
                  \E k \in 1..Len(tokens) :
                    /\ TokenStart(tokens, k) = i - 1
                    /\ tokens[k] = [T |-> T_NL, v |-> <<"\n">>]
          /\ \A k \in 1..Len(tokens) :
                IF tokens[k].T = T_NL
                THEN tokens[k].v = <<"\n">>
                ELSE \A i \in 1..Len(tokens[k].v) : tokens[k].v[i] # "\n"

\* run has returned on a newline between two whitespace characters
C8_Witness ==
  \E p \in Calls :
    /\ calls[p].pc = "done"
    /\ calls[p].str = <<" ", "\n", "\t">>
    /\ Len(calls[p].tokens) = 3

AlphanumChars == {ALPHANUM[i] : i \in 1..Len(ALPHANUM)}

WordLike == {T_DOMAIN, T_TLD, T_NUM, T_LOCALHOST}

\* C9: when run has returned, no domain, top-level domain, number or
\* localhost token ends in "-"; a maximal run of hyphens lies inside one
\* such token when an alphanumeric character stands right before it and
\* right after it, and is otherwise one-character SYM tokens, one a hyphen.
C9_HyphenRule ==
  \A p \in Calls :
    calls[p].pc = "done" =>
      LET str == calls[p].str
          tokens == calls[p].tokens
          n == Len(str)
          alnum(i) == i \in 1..n /\ AsciiLower(str)[i] \in AlphanumChars
      IN  /\ \A k \in 1..Len(tokens) :
                tokens[k].T \in WordLike =>
                  tokens[k].v[Len(tokens[k].v)] # "-"
          /\ \A a \in 1..n : \A b \in a..n :
                (/\ \A i \in a..b : str[i] = "-"
                 /\ a = 1 \/ str[a - 1] # "-"
                 /\ b = n \/ str[b + 1] # "-")
                => IF alnum(a - 1) /\ alnum(b + 1)
                   THEN \E k \in 1..Len(tokens) :
                          /\ tokens[k].T \in WordLike
                          /\ TokenStart(tokens, k) <= a - 2
                          /\ TokenStart(tokens, k) + Len(tokens[k].v) >= b + 1
                   ELSE \A i \in a..b :
                          \E k \in 1..Len(tokens) :
                            /\ TokenStart(tokens, k) = i - 1
                            /\ tokens[k] = [T |-> T_SYM, v |-> <<"-">>]

\* run has returned on a word followed by two hyphens: the walk went into
\* the hyphens and came back
C9_Witness ==
  \E p \in Calls :
    /\ calls[p].pc = "done"
    /\ calls[p].str = <<"t", "-", "-">>
    /\ Len(calls[p].tokens) = 3

\* C10: with the steps of two calls interleaved in every order, the
\* automaton stays as it was built, a call that has returned has the tokens
\* run gives for its input alone, and a step of one call leaves the frame
\* and the cursor of every other call as they were.
C10_InterleavedCallsIndependent ==
  /\ [](/\ automaton = BuiltAutomaton
        /\ \A p \in Calls :
             calls[p].pc = "done" =>
               calls[p].tokens = run(automaton, calls[p].str))
  /\ [][\A p \in Calls :
          calls'[p] # calls[p] =>
            \A q \in Calls \ {p} :
              /\ calls'[q] = calls[q]
              /\ cursor'[cursorOf(q)] = cursor[cursorOf(q)]]_vars

\* both calls are in the middle of their scans, each with a token pushed
\* and characters left
C10_Witness ==
  /\ Len(calls) = 2
  /\ \A p \in Calls :
       /\ calls[p].pc \in {"walk", "rollback"}
       /\ Len(calls[p].tokens) >= 1
  /\ calls[1].str # calls[2].str

\* C11: run on "Email test@gmail.com now" returns nine tokens, with the
\* texts "Email", " ", "test", "@", "gmail", ".", "com", " ", "now" and the
\* classes DOMAIN, WS, DOMAIN, AT, DOMAIN, DOT, TLD, WS, DOMAIN.
C11_EmailExampleTokens ==
  \A p \in Calls :
    (calls[p].pc = "done" /\ calls[p].str = EmailExample) =>
      calls[p].tokens =
        << [T |-> T_DOMAIN, v |-> <<"E","m","a","i","l">>],
           [T |-> T_WS, v |-> <<" ">>],
           [T |-> T_DOMAIN, v |-> <<"t","e","s","t">>],
           [T |-> "AT", v |-> <<"@">>],
           [T |-> T_DOMAIN, v |-> <<"g","m","a","i","l">>],
           [T |-> "DOT", v |-> <<".">>],
           [T |-> T_TLD, v |-> <<"c","o","m">>],
           [T |-> T_WS, v |-> <<" ">>],
           [T |-> T_DOMAIN, v |-> <<"n","o","w">>] >>

\* run has returned on "Email test@gmail.com now"
C11_Witness ==
  \E p \in Calls :
    /\ calls[p].pc = "done"
    /\ calls[p].str = EmailExample
    /\ Len(calls[p].tokens) = 9

\* the length of the longest configured literal: the longest top-level
\* domain or scheme string
LongestLiteral ==
  Max({Len(literals[i]) : i \in 1..Len(literals)}
        \cup {Len(w) : w \in SchemeWords})

\* C12: when a walk has ended, the number of characters the cursor is moved
\* back by (sinceAccepts) is at most the length of the longest configured
\* literal.
C12_RollbackBoundedByLongestLiteral ==
  \A p \in Calls :
    calls[p].pc = "rollback" => calls[p].sinceAccepts <= LongestLiteral

\* C13: the build fails on an empty list of top-level domains: no call of
\* run walks an automaton built from the empty list.
C13_EmptyListFailsAtConstruction ==
  \A p \in Calls :
    calls[p].pc \in {"walk", "rollback", "done"} => literals # <<>>

TldLiterals == {literals[i] : i \in 1..Len(literals)}

Localhost == <<"l","o","c","a","l","h","o","s","t">>

SymbolClasses ==
  {SymbolTable[i][2] : i \in 1..Len(SymbolTable)} \cup {T_NL, T_SYM}

\* C16: every token whose class is a structural symbol, the newline or the
\* catch-all symbol has a text of exactly one character, no state of such a
\* class having a transition; ".." gives two DOT tokens.
C16_SymbolTokensAreSingleCharacters ==
  /\ \A st \in 1..Len(automaton) :
       automaton[st].T \in SymbolClasses =>
         automaton[st].j = <<>> /\ automaton[st].d = NoState
  /\ \A p \in Calls :
      /\ \A k \in 1..Len(calls[p].tokens) :
           calls[p].tokens[k].T \in SymbolClasses =>
             Len(calls[p].tokens[k].v) = 1
      /\ (calls[p].pc = "done" /\ calls[p].str = <<".", ".">>) =>
           calls[p].tokens = <<[T |-> "DOT", v |-> <<".">>],
                               [T |-> "DOT", v |-> <<".">>]>>

\* run has returned on ".."
C16_Witness ==
  \E p \in Calls :
    /\ calls[p].pc = "done"
    /\ calls[p].str = <<".", ".">>
    /\ Len(calls[p].tokens) = 2

\* C17: the inner loop consumes every position of the input at most twice,
\* so over a whole call it consumes at most 2 x the length of the input
\* characters.
C17_LinearWork ==
  \A p \in Calls :
    /\ \A i \in 1..Len(calls[p].str) : calls[p].consumed[i] <= 2
    /\ calls[p].steps <= 2 * Len(calls[p].str)

\* run has returned after consuming the last position of its input twice:
\* in a walk that was rolled back and in the walk that emitted it
C17_Witness ==
  \E p \in Calls :
    /\ calls[p].pc = "done"
    /\ calls[p].str = LongHyphens
    /\ calls[p].consumed[Len(calls[p].str)] = 2
    /\ calls[p].steps = 2 * Len(calls[p].str) - 1

Digits == {NUM[i] : i \in 1..Len(NUM)}

\* the number of characters of text from position from + 1 on that are in
\* chars, up to the first that is not
RECURSIVE RunLength(_, _, _)
RunLength(text, from, chars) ==
  IF from < Len(text) /\ text[from + 1] \in chars
  THEN 1 + RunLength(text, from + 1, chars)
  ELSE 0

\* C18: a token is a NUM token exactly when its text is made of digits only;
\* when run has returned, a token that starts with digits directly followed
\* by a letter, or by hyphens and then an alphanumeric character, is one
\* DOMAIN token that runs over them.
C18_NumberOnlyDigits ==
  \A p \in Calls :
    LET tokens == calls[p].tokens
        low == AsciiLower(calls[p].str)
    IN  /\ \A k \in 1..Len(tokens) :
             tokens[k].T = T_NUM <=>
               \A i \in 1..Len(tokens[k].v) : tokens[k].v[i] \in Digits
        /\ calls[p].pc = "done" =>
             \A k \in 1..Len(tokens) :
               LET from == TokenStart(tokens, k)
                   digits == RunLength(low, from, Digits)
                   hyphens == RunLength(low, from + digits, {"-"})
                   after == from + digits + hyphens + 1
               IN  (/\ digits >= 1
                    /\ after <= Len(low)
                    /\ low[after] \in (IF hyphens = 0
                                       THEN AlphanumChars \ Digits
                                       ELSE AlphanumChars))
                   => /\ tokens[k].T = T_DOMAIN
                      /\ Len(tokens[k].v) >= digits + hyphens + 1

\* run has returned on a digit, a hyphen and a letter
C18_Witness ==
  \E p \in Calls :
    /\ calls[p].pc = "done"
    /\ calls[p].str = <<"1", "-", "t">>
    /\ Len(calls[p].tokens) = 1

\* C19: no two adjacent tokens are both of a class among DOMAIN, TLD, NUM
\* and LOCALHOST; every state of the automaton run is called with that has
\* one of these classes has a jump on every alphanumeric character.
C19_WordLikeTokensMaximal ==
  \A p \in Calls :
    /\ calls[p].pc = "entry" =>
         \A st \in 1..Len(automaton) :
           automaton[st].T \in WordLike =>
             AlphanumChars \subseteq
               {automaton[st].j[i][1] : i \in 1..Len(automaton[st].j)}
    /\ \A k \in 1..(Len(calls[p].tokens) - 1) :
         ~(/\ calls[p].tokens[k].T \in WordLike
           /\ calls[p].tokens[k + 1].T \in WordLike)

\* run has returned a top-level domain, a token of one character and a
\* word-like token
C19_Witness ==
  \E p \in Calls :
    /\ calls[p].pc = "done"
    /\ Len(calls[p].tokens) = 3
    /\ calls[p].tokens[1].T = T_TLD
    /\ Len(calls[p].tokens[2].v) = 1
    /\ calls[p].tokens[3].T \in WordLike

\* C20: the branch of line 184 is never taken: whenever the inner loop has
\* ended, sinceAccepts >= 0 and latestAccepting is set; every state one
\* transition from the start state, by a jump or by the default transition,
\* is accepting.
C20_ShouldNeverHappenUnreachable ==
  /\ \A i \in 1..Len(automaton[S_START].j) :
       accepts(automaton, automaton[S_START].j[i][2])
  /\ automaton[S_START].d # NoState
  /\ accepts(automaton, automaton[S_START].d)
  /\ \A p \in Calls :
       calls[p].pc = "rollback" =>
         /\ calls[p].sinceAccepts >= 0
         /\ calls[p].latestAccepting # NoState
         /\ rollback(automaton, Frame(p)).tokens # calls[p].tokens

\* with two tokens pushed, the inner loop has ended on the state the default
\* transition of the start state leads to
C20_Witness ==
  \E p \in Calls :
    /\ calls[p].pc = "rollback"
    /\ calls[p].latestAccepting = automaton[S_START].d
    /\ Len(calls[p].tokens) = 2

====
